---- MODULE Spec2Model ----
(***************************************************************************)
(* Cache-consistency subsystem of the channel manager: the Redis adapter   *)
(* (package cache), the read handlers (package handlers), the repositories *)
(* (package database) and the change-event relay (EventListener).          *)
(*                                                                         *)
(* Cache keys and patterns are sequences of string tokens, so that         *)
(* fmt.Sprintf and Redis glob matching are computed and not assumed:       *)
(* "property:12" is <<"property", ":", "1", "2">>.                          *)
(***************************************************************************)
EXTENDS Integers, Sequences, FiniteSets, TLC

VARIABLES
    now,        \* wall clock of the application (time.Now), in ticks
    rnow,       \* clock of the cache backend, which applies the TTLs
    store,      \* Data Store content, identified by the number of committed mutations
    events,     \* the events table: sequence of Event rows, row i has ID i
    cache,      \* the Redis keyspace: key -> [val, dl]
    relay,      \* the EventListener goroutine: [pc, batch]
    req,        \* the request handlers in flight: slot -> handler state
    ret,        \* what the last direct call of an invalidation returned
    lis         \* the EventListener's loop, ticker and done channel

vars == <<now, rnow, store, events, cache, relay, req, ret, lis>>

----------------------------------------------------------------------------
(* Bounds of the model *)

MaxEvents == 3      \* rows the events table may hold
MaxTime == 2        \* ticks each clock may advance
MaxVer == 2         \* mutations the Data Store may commit
BatchLimit == 2     \* rows one fetch returns: GetUnprocessedEvents(100), scaled
                    \* to the model's log so that the log can exceed it

(* Program constants, TTLs in ticks (5 min < 1 h < 24 h keep their order) *)

SearchTTL == 1      \* 5*time.Minute
PropertyTTL == 2    \* 1*time.Hour
ListTTL == 3        \* 24*time.Hour

(* Input domains *)

PropIds == {1, 12}
Dates == {"2024-01-01"}
Slots == {"r1", "r2"}      \* requests that may be in flight at once
OneSlot == {"r1"}

----------------------------------------------------------------------------
(* Key Codec: fmt.Sprintf of the key and pattern strings *)

DigitChar == <<"0", "1", "2", "3", "4", "5", "6", "7", "8", "9">>

RECURSIVE Digits(_)
Digits(n) ==
    IF n < 10 THEN <<DigitChar[n + 1]>>
    ELSE Digits(n \div 10) \o <<DigitChar[(n % 10) + 1]>>

PropertyKey(p) == <<"property", ":">> \o Digits(p)
AvailabilityKey(p, d) == <<"availability", ":">> \o Digits(p) \o <<":", d>>
\* a variant without the separator after the id ("availability:%d*");
\* C30_PropertyInvalidationFrame fails for it
AvailabilityPattern_NoSeparator(p) == <<"availability", ":">> \o Digits(p) \o <<"*">>

AvailabilityPattern(p) == <<"availability", ":">> \o Digits(p) \o <<":", "*">>
AmenitiesKey == <<"amenities", ":", "all">>
ConditionsKey == <<"conditions", ":", "all">>
AmenitiesPatterns == <<AmenitiesKey, <<"amenities", ":", "*">>>>
ConditionsPatterns == <<ConditionsKey, <<"conditions", ":", "*">>>>

\* a variant that invalidates by location and city only; C3_MissAfterHandling
\* fails for it
SearchPatterns_Scoped(location, city) ==
    << <<"search", ":", "location", ":">> \o location \o <<":", "*">>,
       <<"search", ":", "city", ":">> \o city \o <<":", "*">> >>

\* location and city are token sequences; the empty string is <<>>
SearchPatterns(location, city) ==
    << <<"search", ":", "location", ":">> \o location \o <<":", "*">>,
       <<"search", ":", "city", ":">> \o city \o <<":", "*">>,
       <<"search", ":", "*">> >>

\* Redis glob matching (SCAN ... MATCH pattern); "*" matches any run of tokens
RECURSIVE GlobMatch(_, _)
GlobMatch(pat, key) ==
    IF pat = <<>> THEN key = <<>>
    ELSE IF Head(pat) = "*"
         THEN \E n \in 0..Len(key) :
                  GlobMatch(Tail(pat), SubSeq(key, n + 1, Len(key)))
         ELSE /\ key # <<>>
              /\ Head(key) = Head(pat)
              /\ GlobMatch(Tail(pat), Tail(key))

----------------------------------------------------------------------------
(* Payloads: what json.Marshal stores and json.Unmarshal reads back.  All   *)
(* payloads are records of one shape; kind is the Go type that was         *)
(* marshalled, data the content (the Data Store version it was read at, or *)
(* the number of items of a reference list).                               *)

Payload(kind, data) ==
    [kind |-> kind, data |-> data, complete |-> TRUE, page |-> 0, limit |-> 0,
     updated |-> 0, expires |-> 0]

Nil == Payload("nil", 0)
\* a value json.Unmarshal cannot decode into the typed struct
Garbage == Payload("garbage", 0)

\* json.Unmarshal(val, &typed): fails unless the bytes hold a value of that type
Decodes(val, kind) == val.kind = kind

----------------------------------------------------------------------------
(* Cache Store Adapter: package cache, RedisClient.  Every operation takes *)
(* the outcome of each backend call it makes (fault: "ok" or the call that *)
(* fails) and returns the keyspace after it and what it returns.           *)

GetFaults == {"ok", "get"}
SetFaults == {"ok", "set"}
DelFaults == {"ok", "del"}
ScanFaults == {"ok", "scan", "del"}
Forever == 0 - 1

Restrict(c, keys) == [k \in keys |-> c[k]]

\* client.Get: the stored bytes, or redis.Nil
RedisGet(c, key) == IF key \in DOMAIN c THEN c[key].val ELSE Nil

\* client.Set(key, data, ttl): unconditional overwrite; expiration 0 stores
\* the key without expiry
RedisSet(c, key, val, ttl, t) ==
    LET e == [val |-> val, dl |-> IF ttl > 0 THEN t + ttl ELSE Forever]
    IN  [k \in DOMAIN c \cup {key} |-> IF k = key THEN e ELSE c[k]]

\* client.Del(keys...)
RedisDel(c, keys) == Restrict(c, DOMAIN c \ keys)

\* the backend's expiry at its own clock t
RedisExpire(c, t) ==
    Restrict(c, {k \in DOMAIN c : c[k].dl = Forever \/ c[k].dl > t})

\* a variant that calls Del with whatever the scan returned, which the backend
\* rejects when it is given no key; C10_InvalidationIdempotent fails for it
deleteByPattern_Unguarded(c, pattern, fault) ==
    LET keys == {k \in DOMAIN c : GlobMatch(pattern, k)}
    IN  IF fault = "scan" \/ fault = "del" \/ keys = {}
        THEN [cache |-> c, err |-> TRUE]
        ELSE [cache |-> RedisDel(c, keys), err |-> FALSE]

deleteByPattern(c, pattern, fault) ==
    LET keys == {k \in DOMAIN c : GlobMatch(pattern, k)}
    IN  IF fault = "scan" THEN [cache |-> c, err |-> TRUE]
        ELSE IF keys # {}
             THEN IF fault = "del" THEN [cache |-> c, err |-> TRUE]
                  ELSE [cache |-> RedisDel(c, keys), err |-> FALSE]
             ELSE [cache |-> c, err |-> FALSE]

\* a variant that attempts every pattern and returns whether any of them
\* failed; C33_FirstErrorStops fails for it
RECURSIVE deleteEach_KeepGoing(_, _, _, _)
deleteEach_KeepGoing(c, patterns, faults, i) ==
    IF i > Len(patterns) THEN [cache |-> c, err |-> FALSE]
    ELSE LET r == deleteByPattern(c, patterns[i], faults[i])
             rest == deleteEach_KeepGoing(r.cache, patterns, faults, i + 1)
         IN  [cache |-> rest.cache, err |-> r.err \/ rest.err]

\* for _, pattern := range patterns { if err := deleteByPattern(...) return err }
RECURSIVE deleteEach(_, _, _, _)
deleteEach(c, patterns, faults, i) ==
    IF i > Len(patterns) THEN [cache |-> c, err |-> FALSE]
    ELSE LET r == deleteByPattern(c, patterns[i], faults[i])
         IN  IF r.err THEN r ELSE deleteEach(r.cache, patterns, faults, i + 1)

InvalidateAvailabilityCache(c, propertyID, fault) ==
    deleteByPattern(c, AvailabilityPattern(propertyID), fault)

InvalidateSearchCache(c, location, city, faults) ==
    deleteEach(c, SearchPatterns(location, city), faults, 1)

InvalidatePropertyCache(c, propertyID, fault) ==
    IF fault = "del" THEN [cache |-> c, err |-> TRUE]
    ELSE [cache |-> RedisDel(c, {PropertyKey(propertyID)}), err |-> FALSE]

InvalidateAmenitiesCache(c, faults) == deleteEach(c, AmenitiesPatterns, faults, 1)

InvalidateConditionsCache(c, faults) == deleteEach(c, ConditionsPatterns, faults, 1)

\* the typed getters that only read: (nil, nil) on redis.Nil, (nil, err) on a
\* backend error or an Unmarshal error, (value, nil) otherwise
GetTyped(c, key, kind, fault) ==
    LET val == RedisGet(c, key)
    IN  IF fault = "get" THEN [val |-> Nil, err |-> "backend"]
        ELSE IF val = Nil THEN [val |-> Nil, err |-> "none"]
        ELSE IF ~Decodes(val, kind) THEN [val |-> Nil, err |-> "decode"]
        ELSE [val |-> val, err |-> "none"]

GetPropertyCache(c, propertyID, fault) ==
    GetTyped(c, PropertyKey(propertyID), "property", fault)

GetAvailabilityCache(c, propertyID, date, fault) ==
    GetTyped(c, AvailabilityKey(propertyID, date), "availability", fault)

GetAmenitiesCache(c, fault) == GetTyped(c, AmenitiesKey, "amenities", fault)

GetConditionsCache(c, fault) == GetTyped(c, ConditionsKey, "conditions", fault)

\* GetSearchResultsCache also checks the payload's expires_at against t =
\* time.Now() and deletes an expired key; the error of that Del is dropped
\* a variant that returns the stored results whatever their expires_at;
\* C7_ExpiredIsMiss fails for it
GetSearchResultsCache_NoExpiry(c, cacheKey, fault, delFault, t) ==
    LET r == GetTyped(c, cacheKey, "search", fault)
    IN  [cache |-> c, val |-> r.val, err |-> r.err]

GetSearchResultsCache(c, cacheKey, fault, delFault, t) ==
    LET r == GetTyped(c, cacheKey, "search", fault)
    IN  IF r.val = Nil THEN [cache |-> c, val |-> Nil, err |-> r.err]
        ELSE IF r.val.expires < t
             THEN [cache |-> IF delFault = "del" THEN c ELSE RedisDel(c, {cacheKey}),
                   val |-> Nil, err |-> "none"]
             ELSE [cache |-> c, val |-> r.val, err |-> "none"]

\* the setters: json.Marshal, then client.Set with the ttl; t is the backend's clock
SetTyped(c, key, val, ttl, fault, t) ==
    IF fault = "set" THEN [cache |-> c, err |-> TRUE]
    ELSE [cache |-> RedisSet(c, key, val, ttl, t), err |-> FALSE]

SetPropertyCache(c, propertyID, property, ttl, fault, t) ==
    SetTyped(c, PropertyKey(propertyID), property, ttl, fault, t)

SetAvailabilityCache(c, propertyID, date, availability, ttl, fault, t) ==
    SetTyped(c, AvailabilityKey(propertyID, date), availability, ttl, fault, t)

SetAmenitiesCache(c, amenities, ttl, fault, t) ==
    SetTyped(c, AmenitiesKey, amenities, ttl, fault, t)

SetConditionsCache(c, conditions, ttl, fault, t) ==
    SetTyped(c, ConditionsKey, conditions, ttl, fault, t)

\* results.UpdatedAt = time.Now(); results.ExpiresAt = time.Now().Add(ttl)
SetSearchResultsCache(c, cacheKey, results, ttl, fault, tnow, t) ==
    SetTyped(c, cacheKey,
             [results EXCEPT !.updated = tnow, !.expires = tnow + ttl],
             ttl, fault, t)

\* SetWithExpiry stores any value under any key
SetWithExpiry(c, key, value, ttl, fault, t) == SetTyped(c, key, value, ttl, fault, t)

----------------------------------------------------------------------------
(* Data Store: package database *)

EventTypes == {"CREATE", "UPDATE", "DELETE"}
StoreFaults == {"ok", "db"}

\* Event.Data: the JSON snapshot of the row; ok says whether json.Unmarshal
\* into the row's struct succeeds, pid is the property_id it holds
EventData(pid) == [ok |-> TRUE, pid |-> pid]
BadData == [ok |-> FALSE, pid |-> 0]

Event(type, table, rid, data) ==
    [type |-> type, table |-> table, rid |-> rid, data |-> data, processed |-> FALSE]

\* the events a producer records in this model
EventInputs ==
    {Event("UPDATE", "properties", p, EventData(p)) : p \in PropIds}
    \cup {Event("UPDATE", "availabilities", 12, EventData(1)),
          Event("CREATE", "availabilities", 1, BadData),
          Event("UPDATE", "pricing", 1, EventData(12)),
          Event("DELETE", "amenities", 1, EventData(0)),
          Event("UPDATE", "conditions", 1, EventData(0)),
          Event("CREATE", "property_amenities", 1, EventData(0)),
          Event("CREATE", "bookings", 1, EventData(0))}

Unprocessed(evs) == {i \in 1..Len(evs) : ~evs[i].processed}

Min(a, b) == IF a < b THEN a ELSE b

\* a variant without the processed = false condition; C4_EventuallyProcessed
\* fails for it
GetUnprocessedEvents_AnyRow(evs, limit) ==
    {b \in SUBSET (1..Len(evs)) : Cardinality(b) = Min(limit, Len(evs))}

\* db.Where("processed = ?", false).Limit(limit).Find(&events): no ORDER BY, so
\* any limit of the unprocessed rows may come back; the set of possible results
GetUnprocessedEvents(evs, limit) ==
    {b \in SUBSET Unprocessed(evs) :
        Cardinality(b) = Min(limit, Cardinality(Unprocessed(evs)))}

\* a variant that writes the flag of every row, true for eventID only;
\* C11_ProcessedMonotonic fails for it
MarkEventAsProcessed_AllRows(evs, eventID) ==
    [i \in 1..Len(evs) |-> [evs[i] EXCEPT !.processed = (i = eventID)]]

\* a variant that also drops the payload of the row it marks;
\* C26_EventLogAppendOnly fails for it
MarkEventAsProcessed_DropPayload(evs, eventID) ==
    IF eventID \in 1..Len(evs)
    THEN [evs EXCEPT ![eventID].processed = TRUE, ![eventID].data = BadData]
    ELSE evs

\* db.Model(&Event{}).Where("id = ?", eventID).Update("processed", true)
MarkEventAsProcessed(evs, eventID) ==
    IF eventID \in 1..Len(evs) THEN [evs EXCEPT ![eventID].processed = TRUE] ELSE evs

\* EventRepository.CreateEvent: db.Create appends the row
CreateEvent(e) ==
    /\ Len(events) < MaxEvents
    /\ \E f \in StoreFaults :
          events' = IF f = "ok" THEN Append(events, e) ELSE events
    /\ UNCHANGED <<now, rnow, store, cache, relay, req, ret, lis>>

\* AvailabilityRepository.UpdateAvailability: db.Save(availability) and nothing else
UpdateAvailability(availability) ==
    /\ store < MaxVer
    /\ \E f \in StoreFaults : store' = IF f = "ok" THEN store + 1 ELSE store
    /\ UNCHANGED <<now, rnow, events, cache, relay, req, ret, lis>>

\* AvailabilityRepository.BulkUpdateAvailability: db.SaveInBatches(rows, 100)
BulkUpdateAvailability(availabilities) ==
    /\ store < MaxVer
    /\ \E f \in StoreFaults :
          store' = IF f = "ok" /\ availabilities # {} THEN store + 1 ELSE store
    /\ UNCHANGED <<now, rnow, events, cache, relay, req, ret, lis>>

\* PricingRepository.UpdatePricing: db.Save(pricing) and nothing else
UpdatePricing(pricing) ==
    /\ store < MaxVer
    /\ \E f \in StoreFaults : store' = IF f = "ok" THEN store + 1 ELSE store
    /\ UNCHANGED <<now, rnow, events, cache, relay, req, ret, lis>>

----------------------------------------------------------------------------
(* Change-Event Relay: EventListener *)

\* the outcomes of the backend calls one handled event makes, in call order;
\* at most one of them fails
NoFaults == [i \in 1..5 |-> "ok"]
HandlerFaults ==
    {NoFaults} \cup
    {[NoFaults EXCEPT ![i] = f] : i \in 1..5, f \in {"scan", "del"}}

Shift(fs, n) == [i \in 1..(Len(fs) - n) |-> fs[i + n]]

\* each handler returns the keyspace after it and whether it logged a failure
handlePropertyEvent(c, event, fs) ==
    LET r1 == InvalidatePropertyCache(c, event.rid, fs[1])
        r2 == InvalidateSearchCache(r1.cache, <<>>, <<>>, Shift(fs, 1))
        r3 == InvalidateAvailabilityCache(r2.cache, event.rid, fs[5])
    IN  [cache |-> r3.cache, err |-> r1.err \/ r2.err \/ r3.err]

handleAvailabilityEvent(c, event, fs) ==
    IF ~event.data.ok THEN [cache |-> c, err |-> TRUE]
    ELSE LET r1 == InvalidateAvailabilityCache(c, event.data.pid, fs[1])
             r2 == InvalidateSearchCache(r1.cache, <<>>, <<>>, Shift(fs, 1))
         IN  [cache |-> r2.cache, err |-> r1.err \/ r2.err]

handlePricingEvent(c, event, fs) ==
    IF ~event.data.ok THEN [cache |-> c, err |-> TRUE]
    ELSE LET r1 == InvalidateSearchCache(c, <<>>, <<>>, fs)
             r2 == InvalidatePropertyCache(r1.cache, event.data.pid, fs[4])
         IN  [cache |-> r2.cache, err |-> r1.err \/ r2.err]

handleAmenityEvent(c, event, fs) ==
    LET r1 == InvalidateAmenitiesCache(c, fs)
        r2 == InvalidateSearchCache(r1.cache, <<>>, <<>>, Shift(fs, 2))
    IN  [cache |-> r2.cache, err |-> r1.err \/ r2.err]

handleConditionEvent(c, event, fs) ==
    LET r1 == InvalidateConditionsCache(c, fs)
        r2 == InvalidateSearchCache(r1.cache, <<>>, <<>>, Shift(fs, 2))
    IN  [cache |-> r2.cache, err |-> r1.err \/ r2.err]

handlePropertyRelationEvent(c, event, fs) ==
    LET r1 == InvalidateSearchCache(c, <<>>, <<>>, fs)
        r2 == InvalidatePropertyCache(r1.cache, event.rid, fs[4])
    IN  [cache |-> r2.cache, err |-> r1.err \/ r2.err]

\* a variant whose default case invalidates the search namespace;
\* C32_UnknownTableIgnored fails for it
handleEvent_DefaultInvalidates(c, event, fs) ==
    CASE event.table = "properties" -> handlePropertyEvent(c, event, fs)
      [] event.table = "availabilities" -> handleAvailabilityEvent(c, event, fs)
      [] event.table = "pricing" -> handlePricingEvent(c, event, fs)
      [] event.table = "amenities" -> handleAmenityEvent(c, event, fs)
      [] event.table = "conditions" -> handleConditionEvent(c, event, fs)
      [] event.table \in {"property_amenities", "property_conditions"} ->
             handlePropertyRelationEvent(c, event, fs)
      [] OTHER -> InvalidateSearchCache(c, <<>>, <<>>, fs)

handleEvent(c, event, fs) ==
    CASE event.table = "properties" -> handlePropertyEvent(c, event, fs)
      [] event.table = "availabilities" -> handleAvailabilityEvent(c, event, fs)
      [] event.table = "pricing" -> handlePricingEvent(c, event, fs)
      [] event.table = "amenities" -> handleAmenityEvent(c, event, fs)
      [] event.table = "conditions" -> handleConditionEvent(c, event, fs)
      [] event.table \in {"property_amenities", "property_conditions"} ->
             handlePropertyRelationEvent(c, event, fs)
      [] OTHER -> [cache |-> c, err |-> FALSE]

\* a variant that empties the keyspace when the fetch fails or returns no
\* event; C24_EmptyCycleChangesNothing fails for it
RelayFetch_FlushOnEmpty ==
    /\ relay.pc = "wait"
    /\ \E f \in StoreFaults, b \in GetUnprocessedEvents(events, BatchLimit) :
          /\ relay' = IF f = "ok" /\ b # {}
                      THEN [pc |-> "cycle", fetched |-> b, batch |-> b]
                      ELSE relay
          /\ cache' = IF f = "ok" /\ b # {} THEN cache ELSE RedisDel(cache, DOMAIN cache)
    /\ UNCHANGED <<now, rnow, store, events, req, ret, lis>>

\* a tick: processUnprocessedEvents up to the start of its loop.  relay holds
\* the fetched slice (fetched) and the part of it the loop has yet to visit
\* (batch)
RelayFetch ==
    /\ relay.pc = "wait"
    /\ \E f \in StoreFaults, b \in GetUnprocessedEvents(events, BatchLimit) :
          relay' = IF f = "ok" /\ b # {}
                   THEN [pc |-> "cycle", fetched |-> b, batch |-> b]
                   ELSE relay
    /\ UNCHANGED <<now, rnow, store, events, cache, req, ret, lis>>

\* a variant whose loop returns when MarkEventAsProcessed fails, leaving the
\* rest of the batch to a later cycle; C22_MarkFailureRetried fails for it
RelayHandle_ReturnOnMarkFailure(id, fs, f) ==
    /\ relay.pc = "cycle"
    /\ id \in relay.batch
    /\ cache' = handleEvent(cache, events[id], fs).cache
    /\ events' = IF f = "ok" THEN MarkEventAsProcessed(events, id) ELSE events
    /\ relay' = IF relay.batch = {id} \/ f # "ok"
                THEN [pc |-> "wait", fetched |-> {}, batch |-> {}]
                ELSE [relay EXCEPT !.batch = @ \ {id}]
    /\ UNCHANGED <<now, rnow, store, req, ret, lis>>

\* one iteration of the loop, for the fetched event id: handleEvent with the
\* backend outcomes fs, then MarkEventAsProcessed with the store outcome f
RelayHandle(id, fs, f) ==
    /\ relay.pc = "cycle"
    /\ id \in relay.batch
    /\ cache' = handleEvent(cache, events[id], fs).cache
    /\ events' = IF f = "ok" THEN MarkEventAsProcessed(events, id) ELSE events
    /\ relay' = IF relay.batch = {id}
                THEN [pc |-> "wait", fetched |-> {}, batch |-> {}]
                ELSE [relay EXCEPT !.batch = @ \ {id}]
    /\ UNCHANGED <<now, rnow, store, req, ret, lis>>

----------------------------------------------------------------------------
(* Search filters and their cache key: models.SearchFilter,                *)
(* Handler.generateSearchCacheKey.  A pointer field is [addr, val], addr 0 *)
(* is nil; a float is held in units of 1e-6, which %f prints exactly.      *)

NilPtr == [addr |-> 0, val |-> 0]

BaseFilter ==
    [Location |-> "", City |-> "", CheckinDate |-> "0001-01-01 00:00:00 +0000 UTC",
     CheckoutDate |-> "0001-01-01 00:00:00 +0000 UTC", NumberOfGuests |-> 0,
     PetFriendly |-> NilPtr, SmokingFriendly |-> NilPtr,
     AmenityIDs |-> <<>>, ConditionIDs |-> <<>>, MinRating |-> 0,
     MaxPrice |-> 0, MinPrice |-> 0, Latitude |-> NilPtr, Longitude |-> NilPtr,
     RadiusKm |-> 0, SortBy |-> "", Page |-> 0, Limit |-> 0]

\* the filters requests carry in this model
Filters == {BaseFilter, [BaseFilter EXCEPT !.City = "Paris", !.Page = 2, !.Limit = 10]}

\* the addresses at which the JSON binder may allocate the value of a pointer
\* field of a request's filter
Addrs == {1, 2}

\* the field values of a filter, pointers followed: what the request carried
Content(filter) ==
    [filter EXCEPT !.PetFriendly.addr = 0, !.SmokingFriendly.addr = 0,
                   !.Latitude.addr = 0, !.Longitude.addr = 0]

\* a variant that prints the flag the pointer leads to, and false for nil;
\* C28_UnsetDiffersFromFalse fails for it
FormatBoolPtr_NilAsFalse(p) ==
    IF p.addr # 0 /\ p.val = 1 THEN <<"true">> ELSE <<"false">>

\* %t given a *bool: fmt prints the bad-verb form with the pointer itself
FormatBoolPtr(p) ==
    IF p.addr = 0 THEN <<"%!t(*bool=", "<nil>", ")">> ELSE <<"%!t(*bool=", p.addr, ")">>

hashStr(filter) ==
    <<filter.Location, filter.City, filter.CheckinDate, filter.CheckoutDate,
      filter.NumberOfGuests, FormatBoolPtr(filter.PetFriendly),
      FormatBoolPtr(filter.SmokingFriendly), filter.AmenityIDs, filter.ConditionIDs,
      filter.MinRating, filter.MaxPrice, filter.MinPrice, filter.RadiusKm,
      filter.SortBy, filter.Page, filter.Limit>>

\* hex.EncodeToString(md5.Sum(s)): one token, taken to be free of collisions
HexMD5(str) == ToString(str)

generateSearchCacheKey(filter) == <<"search", ":", HexMD5(hashStr(filter))>>

\* SearchProperties, "Validate pagination"
ValidatePagination(filter) ==
    [filter EXCEPT !.Page = IF @ < 1 THEN 1 ELSE @,
                   !.Limit = IF @ < 1 \/ @ > 100 THEN 20 ELSE @]

----------------------------------------------------------------------------
(* Request handlers: package handlers, Handler.  A handler runs in three   *)
(* steps: the cache read, the Data Store query, the cache write with the   *)
(* response.                                                               *)

NoResp == [status |-> 0, body |-> Nil, cached |-> FALSE]
Resp(status, body, cached) == [status |-> status, body |-> body, cached |-> cached]

IdleReq ==
    [pc |-> "idle", op |-> "none", id |-> 0, filter |-> BaseFilter,
     getErr |-> "none", queried |-> FALSE, setErr |-> FALSE, loaded |-> Nil,
     resp |-> NoResp]

Free(r) == req[r].pc \in {"idle", "done"}

\* a variant that answers 500 when the cache read returns an error;
\* C8_CacheFaultsNeverFailRead fails for it
AfterGet_FailOnError(op, id, filter, g) ==
    IF g.err # "none"
    THEN [IdleReq EXCEPT !.pc = "done", !.op = op, !.id = id, !.filter = filter,
                         !.getErr = g.err, !.resp = Resp(500, Nil, FALSE)]
    ELSE IF g.val # Nil
    THEN [IdleReq EXCEPT !.pc = "done", !.op = op, !.id = id, !.filter = filter,
                         !.getErr = g.err, !.resp = Resp(200, g.val, TRUE)]
    ELSE [IdleReq EXCEPT !.pc = "miss", !.op = op, !.id = id, !.filter = filter,
                         !.getErr = g.err]

\* the handler's state after its cache read g
AfterGet(op, id, filter, g) ==
    IF g.val # Nil
    THEN [IdleReq EXCEPT !.pc = "done", !.op = op, !.id = id, !.filter = filter,
                         !.getErr = g.err, !.resp = Resp(200, g.val, TRUE)]
    ELSE [IdleReq EXCEPT !.pc = "miss", !.op = op, !.id = id, !.filter = filter,
                         !.getErr = g.err]

\* the Data Store query failed: the handler answers with the error status
Fail(h, status) ==
    [h EXCEPT !.pc = "done", !.queried = TRUE, !.resp = Resp(status, Nil, FALSE)]
\* the Data Store query returned body
Loaded(h, body) == [h EXCEPT !.pc = "loaded", !.queried = TRUE, !.loaded = body]
\* the response after the cache write, whose error is only logged
Served(h, setErr) ==
    [h EXCEPT !.pc = "done", !.setErr = setErr, !.resp = Resp(200, h.loaded, FALSE)]

\* Handler.GetProperty
GetProperty(r, propertyID) ==
    \/ /\ Free(r)
       /\ \E f \in GetFaults :
             req' = [req EXCEPT ![r] =
                        AfterGet("property", propertyID, BaseFilter,
                                 GetPropertyCache(cache, propertyID, f))]
       /\ UNCHANGED <<now, rnow, store, events, cache, relay, ret, lis>>
    \/ /\ req[r].pc = "miss" /\ req[r].op = "property" /\ req[r].id = propertyID
       /\ \E out \in {"ok", "notfound", "db"} :
             req' = [req EXCEPT ![r] =
                        CASE out = "ok" -> Loaded(@, Payload("property", store))
                          [] out = "notfound" -> Fail(@, 404)
                          [] OTHER -> Fail(@, 500)]
       /\ UNCHANGED <<now, rnow, store, events, cache, relay, ret, lis>>
    \/ /\ req[r].pc = "loaded" /\ req[r].op = "property" /\ req[r].id = propertyID
       /\ \E f \in SetFaults :
             LET w == SetPropertyCache(cache, propertyID, req[r].loaded,
                                       PropertyTTL, f, rnow)
             IN  /\ cache' = w.cache
                 /\ req' = [req EXCEPT ![r] = Served(@, w.err)]
       /\ UNCHANGED <<now, rnow, store, events, relay, ret, lis>>

\* Handler.SearchProperties; the request carries filter
SearchProperties(r, filter) ==
    LET flt == ValidatePagination(filter)
        cacheKey == generateSearchCacheKey(flt)
    IN
    \/ /\ Free(r)
       /\ \E f \in GetFaults, df \in DelFaults :
             LET g == GetSearchResultsCache(cache, cacheKey, f, df, now)
             IN  /\ cache' = g.cache
                 /\ req' = [req EXCEPT ![r] = AfterGet("search", 0, flt, g)]
       /\ UNCHANGED <<now, rnow, store, events, relay, ret, lis>>
    \/ /\ req[r].pc = "miss" /\ req[r].op = "search" /\ req[r].filter = flt
       /\ \E out \in {"ok", "partial", "db"} :
             req' = [req EXCEPT ![r] =
                        IF out = "db" THEN Fail(@, 500)
                        ELSE Loaded(@, [Payload("search", store) EXCEPT
                                           !.complete = (out = "ok"),
                                           !.page = flt.Page, !.limit = flt.Limit])]
       /\ UNCHANGED <<now, rnow, store, events, cache, relay, ret, lis>>
    \/ /\ req[r].pc = "loaded" /\ req[r].op = "search" /\ req[r].filter = flt
       /\ \E f \in SetFaults :
             LET w == SetSearchResultsCache(cache, cacheKey, req[r].loaded,
                                            SearchTTL, f, now, rnow)
             IN  /\ cache' = w.cache
                 /\ req' = [req EXCEPT ![r] = Served(@, w.err)]
       /\ UNCHANGED <<now, rnow, store, events, relay, ret, lis>>

\* the sizes of the reference lists the Data Store may answer with
ListSizes == {0, 2}

\* a variant that takes every cached list as a hit, the empty one too;
\* C35_EmptyListNeverHit fails for it
ListHit_AnyLength(g) == g

\* a cached list counts as a hit only when len(cached) > 0
ListHit(g) == IF g.val # Nil /\ g.val.data > 0 THEN g ELSE [g EXCEPT !.val = Nil]

\* Handler.GetAmenities
GetAmenities(r) ==
    \/ /\ Free(r)
       /\ \E f \in GetFaults :
             req' = [req EXCEPT ![r] =
                        AfterGet("amenities", 0, BaseFilter,
                                 ListHit(GetAmenitiesCache(cache, f)))]
       /\ UNCHANGED <<now, rnow, store, events, cache, relay, ret, lis>>
    \/ /\ req[r].pc = "miss" /\ req[r].op = "amenities"
       /\ \E out \in {"ok", "db"}, n \in ListSizes :
             req' = [req EXCEPT ![r] =
                        IF out = "db" THEN Fail(@, 500)
                        ELSE Loaded(@, Payload("amenities", n))]
       /\ UNCHANGED <<now, rnow, store, events, cache, relay, ret, lis>>
    \/ /\ req[r].pc = "loaded" /\ req[r].op = "amenities"
       /\ \E f \in SetFaults :
             LET w == SetAmenitiesCache(cache, req[r].loaded, ListTTL, f, rnow)
             IN  /\ cache' = w.cache
                 /\ req' = [req EXCEPT ![r] = Served(@, w.err)]
       /\ UNCHANGED <<now, rnow, store, events, relay, ret, lis>>

\* Handler.GetConditions
GetConditions(r) ==
    \/ /\ Free(r)
       /\ \E f \in GetFaults :
             req' = [req EXCEPT ![r] =
                        AfterGet("conditions", 0, BaseFilter,
                                 ListHit(GetConditionsCache(cache, f)))]
       /\ UNCHANGED <<now, rnow, store, events, cache, relay, ret, lis>>
    \/ /\ req[r].pc = "miss" /\ req[r].op = "conditions"
       /\ \E out \in {"ok", "db"}, n \in ListSizes :
             req' = [req EXCEPT ![r] =
                        IF out = "db" THEN Fail(@, 500)
                        ELSE Loaded(@, Payload("conditions", n))]
       /\ UNCHANGED <<now, rnow, store, events, cache, relay, ret, lis>>
    \/ /\ req[r].pc = "loaded" /\ req[r].op = "conditions"
       /\ \E f \in SetFaults :
             LET w == SetConditionsCache(cache, req[r].loaded, ListTTL, f, rnow)
             IN  /\ cache' = w.cache
                 /\ req' = [req EXCEPT ![r] = Served(@, w.err)]
       /\ UNCHANGED <<now, rnow, store, events, relay, ret, lis>>

----------------------------------------------------------------------------
(* The environment: the two clocks and other writers of the keyspace *)

\* time.Now() advances
Tick ==
    /\ now < MaxTime
    /\ now' = now + 1
    /\ UNCHANGED <<rnow, store, events, cache, relay, req, ret, lis>>

\* the backend's clock advances and the keys whose TTL has run out are gone
Expire ==
    /\ rnow < MaxTime
    /\ rnow' = rnow + 1
    /\ cache' = RedisExpire(cache, rnow + 1)
    /\ UNCHANGED <<now, store, events, relay, req, ret, lis>>

\* a caller of SetWithExpiry storing, under a typed key, a value of another type
StoreForeign(key) ==
    /\ \E f \in SetFaults :
          cache' = SetWithExpiry(cache, key, Garbage, ListTTL, f, rnow).cache
    /\ UNCHANGED <<now, rnow, store, events, relay, req, ret, lis>>

----------------------------------------------------------------------------
(* Direct callers of the adapter: any goroutine may call the exported      *)
(* setters and invalidations of RedisClient at any time.                   *)

StoreProperty(propertyID) ==
    /\ \E f \in SetFaults :
          cache' = SetPropertyCache(cache, propertyID, Payload("property", store),
                                    PropertyTTL, f, rnow).cache
    /\ UNCHANGED <<now, rnow, store, events, relay, req, ret, lis>>

StoreSearch(filter) ==
    /\ \E f \in SetFaults :
          cache' = SetSearchResultsCache(
                       cache, generateSearchCacheKey(ValidatePagination(filter)),
                       Payload("search", store), SearchTTL, f, now, rnow).cache
    /\ UNCHANGED <<now, rnow, store, events, relay, req, ret, lis>>

StoreAvailability(propertyID, date) ==
    /\ \E f \in SetFaults :
          cache' = SetAvailabilityCache(cache, propertyID, date,
                                        Payload("availability", store),
                                        PropertyTTL, f, rnow).cache
    /\ UNCHANGED <<now, rnow, store, events, relay, req, ret, lis>>

StoreAmenities ==
    /\ \E f \in SetFaults :
          cache' = SetAmenitiesCache(cache, Payload("amenities", 2), ListTTL, f, rnow).cache
    /\ UNCHANGED <<now, rnow, store, events, relay, req, ret, lis>>

StoreConditions ==
    /\ \E f \in SetFaults :
          cache' = SetConditionsCache(cache, Payload("conditions", 2), ListTTL, f, rnow).cache
    /\ UNCHANGED <<now, rnow, store, events, relay, req, ret, lis>>

NoRet == [op |-> "none", err |-> FALSE, nomatch |-> FALSE]

\* the keys of c that one of the patterns matches
Matching(c, patterns) ==
    {k \in DOMAIN c : \E i \in 1..Len(patterns) : GlobMatch(patterns[i], k)}

\* an invalidation op, aimed at patterns, returns r
Returned(op, patterns, r) ==
    /\ cache' = r.cache
    /\ ret' = [op |-> op, err |-> r.err, nomatch |-> Matching(cache, patterns) = {}]
    /\ UNCHANGED <<now, rnow, store, events, relay, req, lis>>

CallInvalidatePropertyCache(propertyID, fault) ==
    Returned("InvalidatePropertyCache", <<PropertyKey(propertyID)>>,
             InvalidatePropertyCache(cache, propertyID, fault))

CallInvalidateAvailabilityCache(propertyID, fault) ==
    Returned("InvalidateAvailabilityCache", <<AvailabilityPattern(propertyID)>>,
             InvalidateAvailabilityCache(cache, propertyID, fault))

CallInvalidateSearchCache(location, city, faults) ==
    Returned("InvalidateSearchCache", SearchPatterns(location, city),
             InvalidateSearchCache(cache, location, city, faults))

CallInvalidateAmenitiesCache(faults) ==
    Returned("InvalidateAmenitiesCache", AmenitiesPatterns,
             InvalidateAmenitiesCache(cache, faults))

CallInvalidateConditionsCache(faults) ==
    Returned("InvalidateConditionsCache", ConditionsPatterns,
             InvalidateConditionsCache(cache, faults))

CallDeleteByPattern(pattern, fault) ==
    Returned("deleteByPattern", <<pattern>>, deleteByPattern(cache, pattern, fault))

\* the listener main has constructed and started: the loop waits in its
\* select, the ticker runs with nothing in its channel, Stop not yet called
Listening == [loop |-> "select", ticking |-> TRUE, tick |-> 0, stop |-> "none"]

----------------------------------------------------------------------------
Init ==
    /\ now = 0
    /\ rnow = 0
    /\ store = 0
    /\ events = <<>>
    /\ cache = Restrict(<<>>, {})
    /\ relay = [pc |-> "wait", fetched |-> {}, batch |-> {}]
    /\ req = [r \in Slots |-> IdleReq]
    /\ ret = NoRet
    /\ lis = Listening

\* the keys the handlers of this model address
Keys ==
    {PropertyKey(p) : p \in PropIds}
    \cup {generateSearchCacheKey(ValidatePagination(f)) : f \in Filters}
    \cup {AmenitiesKey, ConditionsKey}

\* the whole program
Next ==
    \/ \E e \in EventInputs : CreateEvent(e)
    \/ \E p \in PropIds : UpdateAvailability(p)
    \/ \E ps \in SUBSET PropIds : BulkUpdateAvailability(ps)
    \/ \E p \in PropIds : UpdatePricing(p)
    \/ RelayFetch
    \/ \E id \in 1..MaxEvents, fs \in HandlerFaults, f \in StoreFaults :
          RelayHandle(id, fs, f)
    \/ \E r \in OneSlot, p \in PropIds : GetProperty(r, p)
    \/ \E r \in OneSlot, f \in Filters : SearchProperties(r, f)
    \/ \E r \in OneSlot : GetAmenities(r)
    \/ \E r \in OneSlot : GetConditions(r)
    \/ Tick
    \/ Expire
    \/ \E k \in Keys : StoreForeign(k)

Spec == Init /\ [][Next]_vars

(* The relay against concurrent writers of the keyspace *)

RelayEvents ==
    {Event("UPDATE", "properties", 1, EventData(1)),
     Event("CREATE", "availabilities", 1, BadData)}

NextRelay ==
    \/ \E e \in RelayEvents : CreateEvent(e)
    \/ RelayFetch
    \/ \E id \in 1..MaxEvents, fs \in HandlerFaults, f \in StoreFaults :
          RelayHandle(id, fs, f)
    \/ \E p \in PropIds : StoreProperty(p)
    \/ StoreSearch(BaseFilter)
    \/ \E d \in Dates : StoreAvailability(1, d)

SpecRelay == Init /\ [][NextRelay]_vars

\* C1: in the step where the relay marks an event processed, no cache
\* invalidation of that event has failed (backend error or undecodable
\* payload): an event whose handling failed stays unprocessed.
C1_ProcessedOnlyAfterSuccess ==
    [][\A id \in 1..MaxEvents, fs \in HandlerFaults :
          (RelayHandle(id, fs, "ok") /\ handleEvent(cache, events[id], fs).err)
              => ~events'[id].processed]_vars

(* A handler racing with writers of the Data Store and the relay.  The     *)
(* writer that made change number n records the event naming row n; the    *)
(* cache backend answers the relay without fault.                          *)

RaceEvents == {Event("UPDATE", "pricing", store, EventData(1))}

NextRace ==
    \/ \E p \in PropIds : UpdateAvailability(p)
    \/ \E ps \in SUBSET PropIds : BulkUpdateAvailability(ps)
    \/ \E p \in PropIds : UpdatePricing(p)
    \/ \E e \in RaceEvents : store > 0 /\ CreateEvent(e)
    \/ RelayFetch
    \/ \E id \in 1..MaxEvents, f \in StoreFaults : RelayHandle(id, NoFaults, f)
    \/ \E r \in OneSlot : SearchProperties(r, BaseFilter)

SpecRace == Init /\ [][NextRace]_vars

\* C2: every step that changes a tracked table through a repository appends,
\* in the same step, one unprocessed change event to the log.
C2_MutationAppendsEvent ==
    [][store' # store =>
          /\ Len(events') = Len(events) + 1
          /\ ~events'[Len(events')].processed]_vars

\* C6: once the relay cycle that processed the event of change n has
\* completed, no cache entry holds a value computed from the data before
\* change n.
C6_NoStaleEntryAfterCycle ==
    \A i \in 1..Len(events) :
        (events[i].processed /\ relay.pc = "wait") =>
            \A k \in DOMAIN cache : cache[k].val.data >= events[i].rid

\* the query-result keys of c
SearchKeys(c) == {k \in DOMAIN c : k[1] = "search"}

NextLive ==
    \/ \E e \in RelayEvents : CreateEvent(e)
    \/ RelayFetch
    \/ \E id \in 1..MaxEvents, fs \in HandlerFaults, f \in StoreFaults :
          RelayHandle(id, fs, f)
    \/ StoreProperty(1)

SpecLive ==
    /\ Init /\ [][NextLive]_vars
    /\ WF_vars(RelayFetch)
    /\ \A id \in 1..MaxEvents :
          SF_vars(\E fs \in HandlerFaults : RelayHandle(id, fs, "ok"))

C5_SearchNamespaceCleared ==
    [][\A id \in 1..MaxEvents :
          (/\ RelayHandle(id, NoFaults, "ok")
           /\ events[id].table \in {"properties", "availabilities", "pricing",
                                    "amenities", "conditions"})
          => SearchKeys(cache) \cap DOMAIN cache' = {}]_vars

(* Search requests against the two clocks: the application's time.Now()    *)
(* and the backend's own expiry.                                           *)

NextExpiry ==
    \/ \E r \in OneSlot, f \in Filters : SearchProperties(r, f)
    \/ Tick
    \/ Expire

SpecExpiry == Init /\ [][NextExpiry]_vars

\* C7: for a stored search payload the backend returns, GetSearchResultsCache
\* at time now returns a miss (nil, nil) when expires_at is before now, and
\* then the key is gone once its Del is carried out; it returns the stored
\* results, leaving the key, when expires_at is not before now.
C7_ExpiredIsMiss ==
    \A k \in SearchKeys(cache), df \in DelFaults :
        Decodes(cache[k].val, "search") =>
            LET g == GetSearchResultsCache(cache, k, "ok", df, now)
            IN  IF cache[k].val.expires < now
                THEN /\ g.val = Nil /\ g.err = "none"
                     /\ (df = "ok" => k \notin DOMAIN g.cache)
                ELSE /\ g.val = cache[k].val /\ g.err = "none"
                     /\ g.cache = cache

\* a handler has read a key that is still physically present with expires_at
\* in the past, and was given a miss without error
C7_Witness ==
    \E r \in Slots :
        LET k == generateSearchCacheKey(req[r].filter)
        IN  /\ req[r].op = "search" /\ req[r].pc = "miss" /\ req[r].getErr = "none"
            /\ k \in DOMAIN cache
            /\ cache[k].val.expires < now

(* The four read handlers against a faulty cache backend and a writer that *)
(* stores undecodable values under their keys.                             *)

NextFault ==
    \/ \E r \in OneSlot, p \in PropIds : GetProperty(r, p)
    \/ \E r \in OneSlot, f \in Filters : SearchProperties(r, f)
    \/ \E r \in OneSlot : GetAmenities(r)
    \/ \E r \in OneSlot : GetConditions(r)
    \/ \E k \in Keys : StoreForeign(k)

SpecFault == Init /\ [][NextFault]_vars

\* C8: a handler whose cache get or cache set returned an error still queried
\* the Data Store, and whenever the store returned data the response is 200
\* with that data; only a failure of the store call itself fails the request.
C8_CacheFaultsNeverFailRead ==
    \A r \in Slots :
        LET h == req[r]
        IN  /\ (h.pc = "done" /\ h.getErr # "none") => h.queried
            /\ h.setErr => h.queried
            /\ (h.pc = "done" /\ h.queried /\ h.loaded # Nil)
                   => h.resp = Resp(200, h.loaded, FALSE)
            /\ (h.pc = "done" /\ h.queried /\ h.loaded = Nil)
                   => h.resp.status \in {404, 500}

\* a request whose cache get failed on a corrupt payload and whose cache set
\* failed too was answered 200 with the store's data
C8_Witness ==
    \E r \in Slots :
        /\ req[r].pc = "done" /\ req[r].getErr = "decode" /\ req[r].setErr
        /\ req[r].resp.status = 200 /\ req[r].resp.body = req[r].loaded

\* the key a request reads
KeyOf(h) ==
    CASE h.op = "property" -> PropertyKey(h.id)
      [] h.op = "search" -> generateSearchCacheKey(h.filter)
      [] h.op = "amenities" -> AmenitiesKey
      [] OTHER -> ConditionsKey

\* C9: in the step where a handler's cache read fails to deserialize the
\* stored value, the corrupt key is deleted, before the loader runs.
C9_CorruptKeyDeleted ==
    [][\A r \in Slots :
          (Free(r) /\ req'[r].pc = "miss" /\ req'[r].getErr = "decode")
              => KeyOf(req'[r]) \notin DOMAIN cache']_vars

(* The invalidation operations called directly on a populated keyspace *)

Locations == {<<>>, <<"Paris">>}
Ok3 == <<"ok", "ok", "ok">>
\* the outcomes of the backend calls of one invalidation; at most one fails
PatternFaults ==
    {Ok3} \cup {[Ok3 EXCEPT ![i] = f] : i \in 1..3, f \in {"scan", "del"}}
\* a key that only the location pattern of "Paris" and search:* match
LocationKey == <<"search", ":", "location", ":", "Paris", ":", "1">>
Patterns == {AvailabilityPattern(1), <<"search", ":", "*">>, <<"property", ":", "*">>}

NextInv ==
    \/ \E p \in PropIds : StoreProperty(p)
    \/ \E p \in PropIds, d \in Dates : StoreAvailability(p, d)
    \/ \E f \in Filters : StoreSearch(f)
    \/ StoreAmenities
    \/ StoreConditions
    \/ StoreForeign(LocationKey)
    \/ \E p \in PropIds, f \in DelFaults : CallInvalidatePropertyCache(p, f)
    \/ \E p \in PropIds, f \in ScanFaults : CallInvalidateAvailabilityCache(p, f)
    \/ \E l \in Locations, c \in Locations, fs \in PatternFaults :
          CallInvalidateSearchCache(l, c, fs)
    \/ \E fs \in PatternFaults : CallInvalidateAmenitiesCache(fs)
    \/ \E fs \in PatternFaults : CallInvalidateConditionsCache(fs)
    \/ \E pat \in Patterns, f \in ScanFaults : CallDeleteByPattern(pat, f)

SpecInv == Init /\ [][NextInv]_vars

\* an invalidation aimed at patterns, which the backend carries out without
\* fault, is idempotent on the keyspace: once is its outcome, twice its
\* outcome when called again
Idempotent(patterns, once, twice) ==
    /\ ~once.err /\ ~twice.err
    /\ Matching(cache, patterns) = {} => once.cache = cache
    /\ twice.cache = once.cache

\* C10: every invalidation operation, when no key matches, returns no error
\* and leaves the cache unchanged, and invalidating twice in a row leaves the
\* cache as invalidating once does.
C10_InvalidationIdempotent ==
    /\ \A p \in PropIds :
          /\ LET r == InvalidatePropertyCache(cache, p, "ok")
             IN  Idempotent(<<PropertyKey(p)>>, r,
                            InvalidatePropertyCache(r.cache, p, "ok"))
          /\ LET r == InvalidateAvailabilityCache(cache, p, "ok")
             IN  Idempotent(<<AvailabilityPattern(p)>>, r,
                            InvalidateAvailabilityCache(r.cache, p, "ok"))
    /\ \A l \in Locations, c \in Locations :
          LET r == InvalidateSearchCache(cache, l, c, Ok3)
          IN  Idempotent(SearchPatterns(l, c), r,
                         InvalidateSearchCache(r.cache, l, c, Ok3))
    /\ LET r == InvalidateAmenitiesCache(cache, Ok3)
       IN  Idempotent(AmenitiesPatterns, r, InvalidateAmenitiesCache(r.cache, Ok3))
    /\ LET r == InvalidateConditionsCache(cache, Ok3)
       IN  Idempotent(ConditionsPatterns, r, InvalidateConditionsCache(r.cache, Ok3))
    /\ \A pat \in Patterns :
          LET r == deleteByPattern(cache, pat, "ok")
          IN  Idempotent(<<pat>>, r, deleteByPattern(r.cache, pat, "ok"))

\* an invalidation by pattern found no matching key in a populated keyspace
\* and returned without error
C10_Witness ==
    /\ ret.op \in {"deleteByPattern", "InvalidateSearchCache",
                   "InvalidateAvailabilityCache"}
    /\ ret.nomatch /\ ~ret.err
    /\ DOMAIN cache # {}

\* C11: the processed flag is monotonic: no step of CreateEvent, of a fetch or
\* of the relay's loop removes a row or takes its flag from true back to false.
C11_ProcessedMonotonic ==
    [][\A i \in 1..Len(events) :
          events[i].processed => (Len(events') >= i /\ events'[i].processed)]_vars

\* an event is processed while the relay runs a later cycle over other rows
C11_Witness ==
    /\ relay.pc = "cycle"
    /\ \E i \in 1..Len(events) : events[i].processed /\ i \notin relay.fetched
    /\ \E j \in relay.batch : ~events[j].processed

(* The EventListener's loop with its ticker and its done channel.  The     *)
(* ticker's channel holds at most one tick; done is unbuffered, so Stop     *)
(* blocks in its send until the loop's select receives from done.  A select *)
(* with both channels ready takes either.                                   *)

\* the runtime delivers a tick; a tick is dropped when the channel is full
TickerFire ==
    /\ lis.ticking /\ lis.tick = 0
    /\ lis' = [lis EXCEPT !.tick = 1]
    /\ UNCHANGED <<now, rnow, store, events, cache, relay, req, ret>>

\* a variant that runs each cycle in a goroutine of its own
\* (go el.processUnprocessedEvents()), so that the loop is back at its select
\* while the cycle runs; C23_CyclesNeverOverlap fails for it
ListenerTick_Spawn ==
    /\ lis.loop = "select" /\ lis.tick = 1
    /\ lis' = [lis EXCEPT !.tick = 0]
    /\ \E f \in StoreFaults, b \in GetUnprocessedEvents(events, BatchLimit) :
          relay' = IF f = "ok" /\ b # {}
                   THEN [pc |-> "cycle", fetched |-> b, batch |-> b]
                   ELSE relay
    /\ UNCHANGED <<now, rnow, store, events, cache, req, ret>>

\* case <-el.ticker.C: the loop begins processUnprocessedEvents
ListenerTick ==
    /\ lis.loop = "select" /\ relay.pc = "wait" /\ lis.tick = 1
    /\ lis' = [lis EXCEPT !.tick = 0]
    /\ \E f \in StoreFaults, b \in GetUnprocessedEvents(events, BatchLimit) :
          relay' = IF f = "ok" /\ b # {}
                   THEN [pc |-> "cycle", fetched |-> b, batch |-> b]
                   ELSE relay
    /\ UNCHANGED <<now, rnow, store, events, cache, req, ret>>

\* Stop(): el.ticker.Stop(), then the send el.done <- true begins
ListenerStop ==
    /\ lis.stop = "none"
    /\ lis' = [lis EXCEPT !.ticking = FALSE, !.stop = "sending"]
    /\ UNCHANGED <<now, rnow, store, events, cache, relay, req, ret>>

\* case <-el.done: the loop returns and Stop's send completes
ListenerDone ==
    /\ lis.loop = "select" /\ relay.pc = "wait" /\ lis.stop = "sending"
    /\ lis' = [lis EXCEPT !.loop = "exited", !.stop = "returned"]
    /\ UNCHANGED <<now, rnow, store, events, cache, relay, req, ret>>

NextStop ==
    \/ \E e \in RelayEvents : CreateEvent(e)
    \/ TickerFire
    \/ ListenerTick
    \/ \E id \in 1..MaxEvents, fs \in HandlerFaults, f \in StoreFaults :
          RelayHandle(id, fs, f)
    \/ ListenerStop
    \/ ListenerDone

SpecStop == Init /\ [][NextStop]_vars

\* C12: once Stop() has been called, the loop never begins a new
\* processUnprocessedEvents cycle.
C12_NoCycleAfterStop ==
    [][lis.stop # "none" => ~ListenerTick]_vars

(* Two search requests in flight at once *)

\* the request body {"pet_friendly": true}, as bound: the binder stores the
\* flag behind a pointer it allocates for the request
PairFilters ==
    {[BaseFilter EXCEPT !.PetFriendly = [addr |-> a, val |-> 1]] : a \in Addrs}

NextPair ==
    \/ \E r \in Slots, f \in PairFilters : SearchProperties(r, f)

SpecPair == Init /\ [][NextPair]_vars

\* the payload SetSearchResultsCache stores for request h
StoredFor(h) == [h.loaded EXCEPT !.updated = now, !.expires = now + SearchTTL]

\* C13: two requests with identical filters that both missed and both wrote
\* computed the same key, and the value stored under it is the complete
\* payload of one of them.
C13_LastWriteWins ==
    \A r1 \in Slots, r2 \in Slots :
        (/\ r1 # r2
         /\ req[r1].op = "search" /\ req[r2].op = "search"
         /\ req[r1].pc = "done" /\ req[r2].pc = "done"
         /\ req[r1].queried /\ req[r2].queried
         /\ req[r1].loaded # Nil /\ req[r2].loaded # Nil
         /\ ~req[r1].setErr /\ ~req[r2].setErr
         /\ Content(req[r1].filter) = Content(req[r2].filter))
        => LET k == generateSearchCacheKey(req[r1].filter)
           IN  /\ k = generateSearchCacheKey(req[r2].filter)
               /\ k \in DOMAIN cache
               /\ cache[k].val \in {StoredFor(req[r1]), StoredFor(req[r2])}

(* Search requests over filters that differ in one respect each *)

KeyFilters ==
    PairFilters \cup
    {BaseFilter,
     [BaseFilter EXCEPT !.Latitude = [addr |-> 1, val |-> 48000000],
                        !.Longitude = [addr |-> 2, val |-> 2000000], !.RadiusKm = 5],
     [BaseFilter EXCEPT !.Latitude = [addr |-> 1, val |-> 40000000],
                        !.Longitude = [addr |-> 2, val |-> 2000000], !.RadiusKm = 5],
     [BaseFilter EXCEPT !.AmenityIDs = <<1, 2>>],
     [BaseFilter EXCEPT !.AmenityIDs = <<2, 1>>]}

NextKeys ==
    \/ \E r \in OneSlot, f \in KeyFilters : SearchProperties(r, f)

SpecKeys == Init /\ [][NextKeys]_vars

\* the requests that have computed their cache key
Keyed == {r \in Slots : req[r].op = "search"}

\* C14: a request's key is the key of every filter with the same content,
\* also when PetFriendly or SmokingFriendly is set.
C14_KeyDeterministic ==
    \A r \in Keyed, g \in KeyFilters :
        Content(req[r].filter) = Content(ValidatePagination(g))
            => generateSearchCacheKey(req[r].filter)
                   = generateSearchCacheKey(ValidatePagination(g))

\* C15: a request's key differs from the key of every filter that differs
\* from its own in the content of some field.
C15_KeyDistinct ==
    \A r \in Keyed, g \in KeyFilters :
        Content(req[r].filter) # Content(ValidatePagination(g))
            => generateSearchCacheKey(req[r].filter)
                   # generateSearchCacheKey(ValidatePagination(g))

\* the elements of a sequence of ids
Ids(seq) == {seq[i] : i \in 1..Len(seq)}

\* f and g are equal except for the order of AmenityIDs and of ConditionIDs
SameUpToIdOrder(f, g) ==
    /\ [f EXCEPT !.AmenityIDs = <<>>, !.ConditionIDs = <<>>]
          = [g EXCEPT !.AmenityIDs = <<>>, !.ConditionIDs = <<>>]
    /\ Len(f.AmenityIDs) = Len(g.AmenityIDs) /\ Ids(f.AmenityIDs) = Ids(g.AmenityIDs)
    /\ Len(f.ConditionIDs) = Len(g.ConditionIDs)
    /\ Ids(f.ConditionIDs) = Ids(g.ConditionIDs)

\* C16: a request's key is the key of every filter equal to its own except
\* for the order of the amenity or condition ids.
C16_IdOrderIgnored ==
    \A r \in Keyed, g \in KeyFilters :
        SameUpToIdOrder(req[r].filter, ValidatePagination(g))
            => generateSearchCacheKey(req[r].filter)
                   = generateSearchCacheKey(ValidatePagination(g))

\* C17: a request during which a Data Store query failed (the main query, or
\* the pricing query of one property of a search) ends with a failure status,
\* and the cache never holds search results built from a failed pricing query.
C17_StoreFailureNotCached ==
    /\ \A r \in Slots :
          LET h == req[r]
          IN  (h.pc = "done" /\ h.queried
                   /\ (h.loaded = Nil \/ ~h.loaded.complete))
                  => h.resp.status \in {404, 500}
    /\ \A k \in DOMAIN cache :
          cache[k].val.kind = "search" => cache[k].val.complete

----------------------------------------------------------------------------
(* Direct callers of the adapter's set operations with any ttl, and of its *)
(* get operations.                                                         *)

\* the ttl a caller may pass: negative, zero, positive
Ttls == {0 - 1, 0, 1}

\* a set or get op, aimed at key, returns err
KeyReturned(op, key, c, err) ==
    /\ cache' = c
    /\ ret' = [op |-> op, err |-> err, nomatch |-> key \notin DOMAIN cache]
    /\ UNCHANGED <<now, rnow, store, events, relay, req, lis>>

CallSetPropertyCache(propertyID, ttl, fault) ==
    LET w == SetPropertyCache(cache, propertyID, Payload("property", store),
                              ttl, fault, rnow)
    IN  KeyReturned("SetPropertyCache", PropertyKey(propertyID), w.cache, w.err)

CallSetSearchResultsCache(filter, ttl, fault) ==
    LET cacheKey == generateSearchCacheKey(ValidatePagination(filter))
        w == SetSearchResultsCache(cache, cacheKey, Payload("search", store),
                                   ttl, fault, now, rnow)
    IN  KeyReturned("SetSearchResultsCache", cacheKey, w.cache, w.err)

CallSetAvailabilityCache(propertyID, date, ttl, fault) ==
    LET w == SetAvailabilityCache(cache, propertyID, date,
                                  Payload("availability", store), ttl, fault, rnow)
    IN  KeyReturned("SetAvailabilityCache", AvailabilityKey(propertyID, date),
                    w.cache, w.err)

CallSetAmenitiesCache(ttl, fault) ==
    LET w == SetAmenitiesCache(cache, Payload("amenities", 2), ttl, fault, rnow)
    IN  KeyReturned("SetAmenitiesCache", AmenitiesKey, w.cache, w.err)

CallSetConditionsCache(ttl, fault) ==
    LET w == SetConditionsCache(cache, Payload("conditions", 2), ttl, fault, rnow)
    IN  KeyReturned("SetConditionsCache", ConditionsKey, w.cache, w.err)

CallSetWithExpiry(key, ttl, fault) ==
    LET w == SetWithExpiry(cache, key, Garbage, ttl, fault, rnow)
    IN  KeyReturned("SetWithExpiry", key, w.cache, w.err)

NextSet ==
    \/ \E ttl \in Ttls, f \in SetFaults : CallSetPropertyCache(1, ttl, f)
    \/ \E ttl \in Ttls, f \in SetFaults : CallSetSearchResultsCache(BaseFilter, ttl, f)
    \/ \E d \in Dates, ttl \in Ttls, f \in SetFaults :
          CallSetAvailabilityCache(1, d, ttl, f)
    \/ \E ttl \in Ttls, f \in SetFaults : CallSetAmenitiesCache(ttl, f)
    \/ \E ttl \in Ttls, f \in SetFaults : CallSetConditionsCache(ttl, f)
    \/ \E ttl \in Ttls, f \in SetFaults : CallSetWithExpiry(LocationKey, ttl, f)
    \/ Expire

SpecSet == Init /\ [][NextSet]_vars

\* C18: no cache entry is stored without a positive TTL: whatever ttl the six
\* set operations were called with, every key in the cache has an expiry.
C18_NoEntryWithoutTtl == \A k \in DOMAIN cache : cache[k].dl # Forever

\* GetWithExpiry(ctx, key, result) returns only an error: redis.Nil gives nil
\* and leaves *result as the caller had it, a backend failure gives the error,
\* and otherwise the bytes are unmarshalled into *result.  val is what the
\* caller's variable holds after the call.
GetWithExpiry(c, key, result, fault) ==
    LET val == RedisGet(c, key)
    IN  IF fault = "get" THEN [val |-> result, err |-> "backend"]
        ELSE IF val = Nil THEN [val |-> result, err |-> "none"]
        ELSE IF val = Garbage THEN [val |-> result, err |-> "decode"]
        ELSE [val |-> val, err |-> "none"]

\* what the variable a caller hands to GetWithExpiry may hold: its zero value,
\* or the value an earlier read left in it
Results == {Nil, Payload("property", 0)}

CallGetPropertyCache(propertyID, fault) ==
    KeyReturned("GetPropertyCache", PropertyKey(propertyID), cache,
                GetPropertyCache(cache, propertyID, fault).err # "none")

CallGetSearchResultsCache(filter, fault, delFault) ==
    LET cacheKey == generateSearchCacheKey(ValidatePagination(filter))
        g == GetSearchResultsCache(cache, cacheKey, fault, delFault, now)
    IN  KeyReturned("GetSearchResultsCache", cacheKey, g.cache, g.err # "none")

CallGetAvailabilityCache(propertyID, date, fault) ==
    KeyReturned("GetAvailabilityCache", AvailabilityKey(propertyID, date), cache,
                GetAvailabilityCache(cache, propertyID, date, fault).err # "none")

CallGetAmenitiesCache(fault) ==
    KeyReturned("GetAmenitiesCache", AmenitiesKey, cache,
                GetAmenitiesCache(cache, fault).err # "none")

CallGetConditionsCache(fault) ==
    KeyReturned("GetConditionsCache", ConditionsKey, cache,
                GetConditionsCache(cache, fault).err # "none")

CallGetWithExpiry(key, result, fault) ==
    KeyReturned("GetWithExpiry", key, cache,
                GetWithExpiry(cache, key, result, fault).err # "none")

NextGet ==
    \/ \E p \in PropIds : StoreProperty(p)
    \/ \E d \in Dates : StoreAvailability(1, d)
    \/ StoreSearch(BaseFilter)
    \/ StoreAmenities
    \/ StoreConditions
    \/ Expire
    \/ \E p \in PropIds, f \in GetFaults : CallGetPropertyCache(p, f)
    \/ \E f \in GetFaults, df \in DelFaults :
          CallGetSearchResultsCache(BaseFilter, f, df)
    \/ \E d \in Dates, f \in GetFaults : CallGetAvailabilityCache(1, d, f)
    \/ \E f \in GetFaults : CallGetAmenitiesCache(f)
    \/ \E f \in GetFaults : CallGetConditionsCache(f)
    \/ \E p \in PropIds, result \in Results, f \in GetFaults :
          CallGetWithExpiry(PropertyKey(p), result, f)

SpecGet == Init /\ [][NextGet]_vars

\* the three outcomes of one get: on a missing key, on a failing backend, and
\* on a stored value; they are as the caller is promised when a miss leaves it
\* no value and no error, a failure no value and an error, a hit a value and
\* no error
Outcomes(miss, failure, hit, present) ==
    /\ failure.val = Nil /\ failure.err # "none"
    /\ ~present => (miss.val = Nil /\ miss.err = "none")
    /\ present => (hit.val # Nil /\ hit.err = "none")

\* C19: every get operation yields (no value, no error) on a missing key, (no
\* value, error) on a backend failure and (value, no error) on a stored value,
\* for the five typed getters and for GetWithExpiry with whatever the caller's
\* result variable held before.
C19_OutcomesDistinguishable ==
    /\ \A p \in PropIds :
          LET g == GetPropertyCache(cache, p, "ok")
          IN  Outcomes(g, GetPropertyCache(cache, p, "get"), g,
                       PropertyKey(p) \in DOMAIN cache)
    /\ \A d \in Dates :
          LET g == GetAvailabilityCache(cache, 1, d, "ok")
          IN  Outcomes(g, GetAvailabilityCache(cache, 1, d, "get"), g,
                       AvailabilityKey(1, d) \in DOMAIN cache)
    /\ LET g == GetAmenitiesCache(cache, "ok")
       IN  Outcomes(g, GetAmenitiesCache(cache, "get"), g,
                    AmenitiesKey \in DOMAIN cache)
    /\ LET g == GetConditionsCache(cache, "ok")
       IN  Outcomes(g, GetConditionsCache(cache, "get"), g,
                    ConditionsKey \in DOMAIN cache)
    /\ LET k == generateSearchCacheKey(ValidatePagination(BaseFilter))
           g == GetSearchResultsCache(cache, k, "ok", "ok", now)
       IN  Outcomes(g, GetSearchResultsCache(cache, k, "get", "ok", now), g,
                    k \in DOMAIN cache)
    /\ \A p \in PropIds, result \in Results :
          LET g == GetWithExpiry(cache, PropertyKey(p), result, "ok")
          IN  Outcomes(g, GetWithExpiry(cache, PropertyKey(p), result, "get"), g,
                       PropertyKey(p) \in DOMAIN cache)

----------------------------------------------------------------------------
(* The relay against a backend that stops responding.  The cycle calls the *)
(* store through gorm without a context and the cache with                 *)
(* context.Background(); neither client is given a timeout, so a call to a *)
(* backend that never answers is still in flight.                          *)

\* a call of the fetch (GetUnprocessedEvents) never returns
RelayFetchBlock ==
    /\ relay.pc = "wait"
    /\ relay' = [relay EXCEPT !.pc = "blocked"]
    /\ UNCHANGED <<now, rnow, store, events, cache, req, ret, lis>>

\* a call made while handling the fetched event id (a cache call of
\* handleEvent, or MarkEventAsProcessed) never returns
RelayHandleBlock(id) ==
    /\ relay.pc = "cycle"
    /\ id \in relay.batch
    /\ relay' = [relay EXCEPT !.pc = "blocked"]
    /\ UNCHANGED <<now, rnow, store, events, cache, req, ret, lis>>

NextHang ==
    \/ \E e \in RelayEvents : CreateEvent(e)
    \/ RelayFetch
    \/ RelayFetchBlock
    \/ \E id \in 1..MaxEvents, fs \in HandlerFaults, f \in StoreFaults :
          RelayHandle(id, fs, f)
    \/ \E id \in 1..MaxEvents : RelayHandleBlock(id)
    \/ StoreProperty(1)

\* the goroutine of the loop keeps running: a cycle in progress takes its
\* next step, which is a call that returns or a call that does not
SpecHang ==
    /\ Init /\ [][NextHang]_vars
    /\ WF_vars(\E id \in 1..MaxEvents :
                  \/ RelayHandleBlock(id)
                  \/ \E fs \in HandlerFaults, f \in StoreFaults :
                        RelayHandle(id, fs, f))

\* C20: every relay cycle terminates: a cycle in progress leads to the loop
\* waiting again for the next tick or the shutdown signal, whatever the
\* backends do.
C20_CycleTerminates == (relay.pc = "cycle") ~> (relay.pc = "wait")

\* C21: within a cycle the fetched events are visited in ascending id order,
\* and the fetched batch holds the lowest-id unprocessed events: every event
\* the loop has visited has a lower id than every event it has yet to visit,
\* and every fetched event a lower id than every unprocessed event left out.
C21_OldestFirst ==
    relay.pc = "cycle" =>
        /\ \A i \in relay.fetched \ relay.batch, j \in relay.batch : i < j
        /\ \A i \in relay.fetched, j \in Unprocessed(events) \ relay.fetched : i < j

(* The relay with a Data Store whose MarkEventAsProcessed may fail, under   *)
(* the fairness of SpecLive.                                               *)

NextRetry ==
    \/ \E e \in RelayEvents : CreateEvent(e)
    \/ RelayFetch
    \/ \E id \in 1..MaxEvents, f \in StoreFaults : RelayHandle(id, NoFaults, f)
    \/ StoreProperty(1)

SpecRetry ==
    /\ Init /\ [][NextRetry]_vars
    /\ WF_vars(RelayFetch)
    /\ \A id \in 1..MaxEvents : SF_vars(RelayHandle(id, NoFaults, "ok"))

\* the events the current cycle has visited and whose mark failed
MarkFailed == {i \in relay.fetched \ relay.batch : ~events[i].processed}

\* C22: in a step of the cycle that visits an event and leaves it unprocessed
\* (MarkEventAsProcessed failed), the event log is as before and the cycle
\* goes on with the rest of the batch; such an event is in the batch of a later cycle again; and
\* handling an event a second time leaves the cache as handling it once did.
C22_MarkFailureRetried ==
    /\ [][\A id \in relay.batch :
             (relay.pc = "cycle" /\ id \notin relay'.batch /\ ~events'[id].processed)
                 => /\ events' = events
                    /\ relay.batch # {id} =>
                           (relay'.pc = "cycle" /\ relay'.batch = relay.batch \ {id})]_vars
    /\ \A i \in 1..MaxEvents : (i \in MarkFailed) ~> (i \in relay.batch)
    /\ [](\A i \in 1..Len(events) :
             LET once == handleEvent(cache, events[i], NoFaults).cache
             IN  handleEvent(once, events[i], NoFaults).cache = once)

\* a mark failed for one event of the batch while the loop has another event
\* of it to visit
C22_Witness ==
    /\ relay.pc = "cycle"
    /\ MarkFailed # {}
    /\ relay.batch # {}

\* C23: relay cycles never overlap: while a cycle is in progress no step
\* begins another one, so its fetched slice stays as it is until the cycle
\* has ended, also when the ticker fires during the cycle.
C23_CyclesNeverOverlap ==
    [][relay.pc = "cycle" =>
          /\ ~ListenerTick
          /\ relay'.pc = "wait" \/ relay'.fetched = relay.fetched]_vars

\* the ticker has fired while a cycle is in progress: the cycle takes longer
\* than the tick interval
C23_Witness ==
    /\ relay.pc = "cycle"
    /\ lis.tick = 1
    /\ lis.loop = "select"

\* C24: a cycle that begins no loop, because the fetch returned zero events or
\* failed, changes nothing: the cache, the event log and the relay are as they
\* were.
C24_EmptyCycleChangesNothing ==
    [][(RelayFetch /\ relay'.pc = "wait")
          => (cache' = cache /\ events' = events /\ relay' = relay)]_vars

\* the relay waits with every recorded event processed while the cache holds
\* keys: its next cycle finds zero unprocessed events
C24_Witness ==
    /\ relay.pc = "wait"
    /\ Len(events) > 0
    /\ Unprocessed(events) = {}
    /\ DOMAIN cache # {}

----------------------------------------------------------------------------
(* The relay handling availability events whose payload names property 1   *)
(* while their record id is 12, against cached availability of both ids.   *)

AvailabilityEvents == {Event("UPDATE", "availabilities", 12, EventData(1))}

NextAvail ==
    \/ \E e \in AvailabilityEvents : CreateEvent(e)
    \/ RelayFetch
    \/ \E id \in 1..MaxEvents, fs \in HandlerFaults, f \in StoreFaults :
          RelayHandle(id, fs, f)
    \/ \E p \in PropIds, d \in Dates : StoreAvailability(p, d)

SpecAvail == Init /\ [][NextAvail]_vars

\* the availability keys of propertyID in keyspace c
AvailabilityKeys(c, propertyID) ==
    {k \in DOMAIN c : GlobMatch(AvailabilityPattern(propertyID), k)}

\* C25: in the step where the relay marks processed an event on
\* availabilities, no availability key of the property id its payload holds
\* that existed when the event was handled is left.
C25_AvailabilityKeysCleared ==
    [][\A id \in 1..MaxEvents, fs \in HandlerFaults :
          (/\ RelayHandle(id, fs, "ok")
           /\ events[id].table = "availabilities"
           /\ events[id].data.ok)
          => AvailabilityKeys(cache, events[id].data.pid) \cap DOMAIN cache' = {}]_vars

\* C26: the event log is append-only: in every step each existing event is
\* still there, under the same id, with the same type, table, record id and
\* payload; only its processed flag may differ.
C26_EventLogAppendOnly ==
    [][/\ Len(events') >= Len(events)
       /\ \A i \in 1..Len(events) :
             [events'[i] EXCEPT !.processed = events[i].processed] = events[i]]_vars

\* the log holds a processed event with a decodable payload and an event
\* recorded after it
C26_Witness ==
    \E i \in 1..Len(events) :
        /\ events[i].processed
        /\ events[i].data.ok
        /\ i < Len(events)

----------------------------------------------------------------------------
(* The four read handlers, one request at a time, as the only writers of   *)
(* the keyspace, while the Data Store changes.                             *)

NextRead ==
    \/ \E r \in OneSlot : GetProperty(r, 1)
    \/ \E r \in OneSlot : SearchProperties(r, BaseFilter)
    \/ \E r \in OneSlot : GetAmenities(r)
    \/ \E r \in OneSlot : GetConditions(r)
    \/ UpdatePricing(1)

SpecRead == Init /\ [][NextRead]_vars

\* C27: a request that missed and loaded a value has stored it under the key
\* of its view when it answers, with cached = false (unless the cache write
\* failed); and a request whose cache read succeeded goes on to the Data Store
\* only when its key is not in the cache: a read of a stored key is a hit.
C27_GetOrPopulate ==
    \A r \in Slots :
        LET h == req[r]
        IN  /\ (h.pc = "done" /\ h.queried /\ h.loaded # Nil /\ ~h.setErr)
                   => /\ KeyOf(h) \in DOMAIN cache
                      /\ cache[KeyOf(h)].val
                             = (IF h.op = "search" THEN StoredFor(h) ELSE h.loaded)
                      /\ h.resp = Resp(200, h.loaded, FALSE)
            /\ (h.pc = "done" /\ h.resp.cached)
                   => (~h.queried /\ h.resp = Resp(200, cache[KeyOf(h)].val, TRUE))
            /\ (h.pc = "miss" /\ h.getErr = "none")
                   => KeyOf(h) \notin DOMAIN cache

----------------------------------------------------------------------------
(* Search requests that leave a flag out or carry it as false *)

\* the bodies {}, {"pet_friendly": false} and {"smoking_friendly": false}
FlagFilters ==
    {BaseFilter}
    \cup {[BaseFilter EXCEPT !.PetFriendly = [addr |-> a, val |-> 0]] : a \in Addrs}
    \cup {[BaseFilter EXCEPT !.SmokingFriendly = [addr |-> a, val |-> 0]] : a \in Addrs}

NextFlags == \/ \E r \in OneSlot, f \in FlagFilters : SearchProperties(r, f)

SpecFlags == Init /\ [][NextFlags]_vars

\* f leaves unset a flag that g carries as false, all other content equal
UnsetVersusFalse(f, g) ==
    \/ /\ f.PetFriendly = NilPtr
       /\ g.PetFriendly.addr # 0 /\ g.PetFriendly.val = 0
       /\ Content([f EXCEPT !.PetFriendly = NilPtr])
              = Content([g EXCEPT !.PetFriendly = NilPtr])
    \/ /\ f.SmokingFriendly = NilPtr
       /\ g.SmokingFriendly.addr # 0 /\ g.SmokingFriendly.val = 0
       /\ Content([f EXCEPT !.SmokingFriendly = NilPtr])
              = Content([g EXCEPT !.SmokingFriendly = NilPtr])

\* C28: the key of a request whose PetFriendly or SmokingFriendly is unset
\* differs from the key of the otherwise identical filter whose flag is
\* explicitly false, and the other way round.
C28_UnsetDiffersFromFalse ==
    \A r \in Keyed, g \in FlagFilters :
        (\/ UnsetVersusFalse(req[r].filter, ValidatePagination(g))
         \/ UnsetVersusFalse(ValidatePagination(g), req[r].filter))
            => generateSearchCacheKey(req[r].filter)
                   # generateSearchCacheKey(ValidatePagination(g))

\* a request with pet_friendly explicitly false has stored its results while
\* the request without the flag finds no entry under its own key
C28_Witness ==
    \E r \in Keyed :
        /\ req[r].pc = "done"
        /\ req[r].filter.PetFriendly.addr # 0 /\ req[r].filter.PetFriendly.val = 0
        /\ generateSearchCacheKey(req[r].filter) \in DOMAIN cache
        /\ generateSearchCacheKey(ValidatePagination(BaseFilter)) \notin DOMAIN cache

----------------------------------------------------------------------------
(* The relay handling events on the reference tables against the cached    *)
(* reference lists.                                                        *)

ListEvents ==
    {Event("DELETE", "amenities", 1, EventData(0)),
     Event("UPDATE", "conditions", 1, EventData(0))}

NextLists ==
    \/ \E e \in ListEvents : CreateEvent(e)
    \/ RelayFetch
    \/ \E id \in 1..MaxEvents, fs \in HandlerFaults, f \in StoreFaults :
          RelayHandle(id, fs, f)
    \/ StoreAmenities
    \/ StoreConditions

SpecLists == Init /\ [][NextLists]_vars

\* C29: in the step where the relay marks processed an event on amenities
\* (conditions), amenities:all (conditions:all) is gone, so that the cache
\* read of the next GetAmenities (GetConditions) request is a miss.
C29_ListKeyDeleted ==
    [][\A id \in 1..MaxEvents, fs \in HandlerFaults :
          RelayHandle(id, fs, "ok") =>
              /\ events[id].table = "amenities" =>
                     /\ AmenitiesKey \notin DOMAIN cache'
                     /\ ListHit(GetAmenitiesCache(cache', "ok")).val = Nil
              /\ events[id].table = "conditions" =>
                     /\ ConditionsKey \notin DOMAIN cache'
                     /\ ListHit(GetConditionsCache(cache', "ok")).val = Nil]_vars

----------------------------------------------------------------------------
(* The relay handling events on property 1 against a keyspace that also    *)
(* holds the keys of property 12 and the reference lists.                  *)

PropertyEvents == {Event("UPDATE", "properties", 1, EventData(1))}

NextFrame ==
    \/ \E e \in PropertyEvents : CreateEvent(e)
    \/ RelayFetch
    \/ \E id \in 1..MaxEvents, fs \in HandlerFaults, f \in StoreFaults :
          RelayHandle(id, fs, f)
    \/ \E p \in PropIds : StoreProperty(p)
    \/ \E p \in PropIds, d \in Dates : StoreAvailability(p, d)
    \/ StoreSearch(BaseFilter)
    \/ StoreAmenities
    \/ StoreConditions

SpecFrame == Init /\ [][NextFrame]_vars

\* the keys of keyspace c an invalidation for propertyID may delete
Scope(c, propertyID) ==
    {PropertyKey(propertyID)}
    \cup {AvailabilityKey(propertyID, d) : d \in Dates}
    \cup SearchKeys(c)

\* C30: a step of the cycle that visits an event on properties for id P
\* leaves every key outside property:P, availability:P:* and search:* in the
\* cache with its value, and adds none.
C30_PropertyInvalidationFrame ==
    [][\A id \in relay.batch :
          (/\ relay.pc = "cycle" /\ id \notin relay'.batch
           /\ events[id].table = "properties")
              => /\ DOMAIN cache' \subseteq DOMAIN cache
                 /\ \A k \in DOMAIN cache \ Scope(cache, events[id].rid) :
                       k \in DOMAIN cache' /\ cache'[k] = cache[k]]_vars

\* an event on property 1 has been processed and took property:1 with it,
\* while the keys of property 12 and both reference lists are cached
C30_Witness ==
    /\ \E i \in 1..Len(events) : events[i].processed /\ events[i].rid = 1
    /\ PropertyKey(1) \notin DOMAIN cache
    /\ \A d \in Dates : AvailabilityKey(1, d) \notin DOMAIN cache
    /\ PropertyKey(12) \in DOMAIN cache
    /\ \E d \in Dates : AvailabilityKey(12, d) \in DOMAIN cache
    /\ AmenitiesKey \in DOMAIN cache /\ ConditionsKey \in DOMAIN cache

----------------------------------------------------------------------------
(* Shutdown while the relay runs against a backend that may stop           *)
(* responding: Stop() is called once, after Start().                       *)

NextShutdown ==
    \/ \E e \in RelayEvents : CreateEvent(e)
    \/ TickerFire
    \/ ListenerTick
    \/ \E id \in 1..MaxEvents, fs \in HandlerFaults, f \in StoreFaults :
          RelayHandle(id, fs, f)
    \/ \E id \in 1..MaxEvents : RelayHandleBlock(id)
    \/ ListenerStop
    \/ ListenerDone

\* the goroutine of the loop keeps running: at its select it takes a case
\* that is ready, in a cycle it makes its next call, which returns or not
SpecShutdown ==
    /\ Init /\ [][NextShutdown]_vars
    /\ WF_vars(ListenerTick \/ ListenerDone)
    /\ WF_vars(\E id \in 1..MaxEvents :
                  \/ RelayHandleBlock(id)
                  \/ \E fs \in HandlerFaults, f \in StoreFaults :
                        RelayHandle(id, fs, f))

\* C31: Stop() eventually returns; when it has returned the goroutine has
\* received the shutdown signal and exited, with no cycle in progress, and no
\* cycle begins afterwards.
C31_StopReturns ==
    /\ (lis.stop = "sending") ~> (lis.stop = "returned")
    /\ [](lis.stop = "returned" => (lis.loop = "exited" /\ relay.pc = "wait"))
    /\ [][lis.stop = "returned" => relay'.pc = "wait"]_vars

----------------------------------------------------------------------------
(* The relay handling events on a table it has no handler for *)

HandledTables ==
    {"properties", "availabilities", "pricing", "amenities", "conditions",
     "property_amenities", "property_conditions"}

UnknownEvents ==
    {Event("CREATE", "bookings", 1, EventData(0)),
     Event("UPDATE", "properties", 1, EventData(1))}

NextUnknown ==
    \/ \E e \in UnknownEvents : CreateEvent(e)
    \/ RelayFetch
    \/ \E id \in 1..MaxEvents, fs \in HandlerFaults, f \in StoreFaults :
          RelayHandle(id, fs, f)
    \/ StoreProperty(1)
    \/ StoreSearch(BaseFilter)

SpecUnknown == Init /\ [][NextUnknown]_vars

\* C32: the step of the cycle that visits an event on a table without a
\* handler leaves the cache as it was, whatever the cache backend does, and
\* marks the event processed in that same step when its MarkEventAsProcessed
\* call succeeds; a processed event is in no later batch.
C32_UnknownTableIgnored ==
    /\ [][\A id \in relay.batch :
             events[id].table \notin HandledTables
                 => /\ (relay.pc = "cycle" /\ id \notin relay'.batch) => cache' = cache
                    /\ RelayHandle(id, NoFaults, "ok") => events'[id].processed]_vars
    /\ [](\A i \in relay.batch : ~events[i].processed)

\* an event on bookings is processed while the keys it left alone are cached,
\* and the relay is in a later cycle
C32_Witness ==
    /\ \E i \in 1..Len(events) :
          events[i].table = "bookings" /\ events[i].processed
    /\ SearchKeys(cache) # {}
    /\ PropertyKey(1) \in DOMAIN cache
    /\ relay.pc = "cycle"

\* keyspace c without the keys the first n of patterns match
Cleared(c, patterns, n) == RedisDel(c, Matching(c, SubSeq(patterns, 1, n)))

\* the backend call of pattern i fails in keyspace c: its scan, or its Del,
\* which is only made when a key matches
Fails(c, pattern, fault) ==
    \/ fault = "scan"
    \/ fault = "del" /\ Matching(c, <<pattern>>) # {}

\* C33: InvalidateSearchCache takes its three patterns in order; when the
\* backend call of pattern i fails it returns the error with the keys of the
\* patterns before i deleted and the others left, and when it returns nil no
\* search:* key that was in the cache is left.
C33_FirstErrorStops ==
    \A l \in Locations, c \in Locations, fs \in PatternFaults :
        LET patterns == SearchPatterns(l, c)
            r == InvalidateSearchCache(cache, l, c, fs)
            failing == {i \in 1..3 : Fails(Cleared(cache, patterns, i - 1),
                                           patterns[i], fs[i])}
        IN  /\ \A i \in failing :
                  r.err /\ r.cache = Cleared(cache, patterns, i - 1)
            /\ failing = {} => (~r.err /\ r.cache = Cleared(cache, patterns, 3))
            /\ ~r.err => SearchKeys(cache) \cap DOMAIN r.cache = {}

\* InvalidateSearchCache has returned an error and search keys are left in
\* the cache: the patterns after the failing one were not attempted
C33_Witness ==
    /\ ret.op = "InvalidateSearchCache"
    /\ ret.err
    /\ LocationKey \notin DOMAIN cache
    /\ SearchKeys(cache) # {}

----------------------------------------------------------------------------
(* Search requests with pages and limits in and out of range *)

\* the bodies {}, {"page": -1, "limit": 500}, {"page": 1, "limit": 20},
\* {"page": 2, "limit": 10}, and {"pet_friendly": true} with page 0 and 1
PageFilters ==
    {BaseFilter,
     [BaseFilter EXCEPT !.Page = 0 - 1, !.Limit = 500],
     [BaseFilter EXCEPT !.Page = 1, !.Limit = 20],
     [BaseFilter EXCEPT !.Page = 2, !.Limit = 10]}
    \cup {[BaseFilter EXCEPT !.PetFriendly = [addr |-> a, val |-> 1], !.Page = p] :
             a \in Addrs, p \in {0, 1}}

NextPages == \/ \E r \in OneSlot, f \in PageFilters : SearchProperties(r, f)

SpecPages == Init /\ [][NextPages]_vars

\* C34: a request shares its key with every request that differs from it only
\* in page and limit values that normalize to the same page and limit, and
\* every cached payload records a page of at least 1 and a limit in 1..100.
C34_PaginationNormalized ==
    /\ \A r \in Keyed, g \in PageFilters :
          Content(req[r].filter) = Content(ValidatePagination(g))
              => generateSearchCacheKey(req[r].filter)
                     = generateSearchCacheKey(ValidatePagination(g))
    /\ \A k \in DOMAIN cache :
          cache[k].val.page >= 1 /\ cache[k].val.limit \in 1..100

\* the requests for a reference list
ListReqs == {r \in Slots : req[r].op \in {"amenities", "conditions"}}

\* C35: a cached empty reference list is never served as a hit: a list served
\* from the cache has items; a request that ends while the empty list is
\* cached under its key has queried the Data Store, and has written what it
\* loaded over the key unless the cache write failed.
C35_EmptyListNeverHit ==
    \A r \in ListReqs :
        LET h == req[r]
            k == KeyOf(h)
        IN  /\ (h.pc = "done" /\ h.resp.cached) => h.resp.body.data > 0
            /\ (h.pc = "done" /\ k \in DOMAIN cache /\ cache[k].val.data = 0)
                   => (h.queried /\ ~h.resp.cached)
            /\ (h.pc = "done" /\ h.queried /\ h.loaded # Nil /\ ~h.setErr)
                   => (k \in DOMAIN cache /\ cache[k].val = h.loaded)

\* a request has read the cached empty list without error and goes on to the
\* Data Store
C35_Witness ==
    \E r \in ListReqs :
        /\ req[r].pc = "miss" /\ req[r].getErr = "none"
        /\ KeyOf(req[r]) \in DOMAIN cache
        /\ cache[KeyOf(req[r])].val.data = 0

----------------------------------------------------------------------------
(* The two invalidations of a property's availability keys *)

\* InvalidateAvailabilityDateRange: startDate and endDate are not used; the
\* iterator's error is not looked at, so when the scan fails the keys it had
\* returned until then (scanned) are deleted and nil is returned
InvalidateAvailabilityDateRange(c, propertyID, startDate, endDate, fault, scanned) ==
    LET keys == IF fault = "scan" THEN scanned
                ELSE {k \in DOMAIN c : GlobMatch(AvailabilityPattern(propertyID), k)}
    IN  IF keys # {}
        THEN IF fault = "del" THEN [cache |-> c, err |-> TRUE]
             ELSE [cache |-> RedisDel(c, keys), err |-> FALSE]
        ELSE [cache |-> c, err |-> FALSE]

\* the start and end dates a caller passes
RangeDates == {"2024-01-01", "2024-12-31"}

\* what a scan that fails may have returned before it failed
Scanned(c, propertyID, fault) ==
    IF fault = "scan" THEN SUBSET AvailabilityKeys(c, propertyID)
    ELSE {AvailabilityKeys(c, propertyID)}

CallInvalidateAvailabilityDateRange(propertyID, startDate, endDate, fault) ==
    \E scanned \in Scanned(cache, propertyID, fault) :
        Returned("InvalidateAvailabilityDateRange", <<AvailabilityPattern(propertyID)>>,
                 InvalidateAvailabilityDateRange(cache, propertyID, startDate,
                                                 endDate, fault, scanned))

NextRange ==
    \/ \E p \in PropIds, d \in Dates : StoreAvailability(p, d)
    \/ \E p \in PropIds : StoreProperty(p)
    \/ Expire
    \/ \E p \in PropIds, f \in ScanFaults : CallInvalidateAvailabilityCache(p, f)
    \/ \E p \in PropIds, s \in RangeDates, e \in RangeDates, f \in ScanFaults :
          CallInvalidateAvailabilityDateRange(p, s, e, f)

SpecRange == Init /\ [][NextRange]_vars

\* C36: for every property id, start, end and backend outcome,
\* InvalidateAvailabilityDateRange leaves the cache and returns the error that
\* InvalidateAvailabilityCache does, an error whenever the key scan fails.
C36_DateRangeEquivalent ==
    \A p \in PropIds, s \in RangeDates, e \in RangeDates, f \in ScanFaults :
        \A scanned \in Scanned(cache, p, f) :
            LET r == InvalidateAvailabilityDateRange(cache, p, s, e, f, scanned)
            IN  /\ r = InvalidateAvailabilityCache(cache, p, f)
                /\ f = "scan" => r.err

====
